---- MODULE Spec2Model ----
(***************************************************************************)
(* A model of the chat page of the Medical RAG front end                   *)
(* (src/frontend/src/pages/Chat/ChatPage.tsx) and of its answer client     *)
(* (src/frontend/src/services/chat.ts).                                    *)
(*                                                                         *)
(* React runs every event handler and every promise continuation to        *)
(* completion, batches the state updates it made, renders, and flushes the *)
(* effects whose dependencies changed before the next event is handled.    *)
(* One action of the model is therefore one handler (or one continuation   *)
(* of send after its await) together with the effects it triggers.         *)
(***************************************************************************)
EXTENDS Integers, Sequences, FiniteSets, TLC

VARIABLES
    messages,      \* useState<Message[]>           (ChatPage.tsx:15)
    history,       \* useState<HistoryItem[]>       (ChatPage.tsx:16)
    sessionId,     \* useState("")                  (ChatPage.tsx:17)
    isSending,     \* useState(false)               (ChatPage.tsx:20)
    isTyping,      \* useState(false)               (ChatPage.tsx:22)
    localStorage,  \* the browser's key-value store, key -> item
    pending,       \* the suspended continuations of send (awaiting askQuestion)
    nextUuid,      \* the next value uuidv4() returns
    now,           \* the reading of Date.now()
    crashed,       \* a render or an effect threw: React unmounted the page
    lastOp,        \* history variable: the handler that ran last
    left,          \* history variable: the log each session had when it was left
    \* The Git-Guard configuration panel (src/unnamed/part_000).
    mounted,       \* onMounted has run                  (part_000:80)
    loading,       \* ref(false)                         (part_000:16)
    saving,        \* ref(false)                         (part_000:17)
    runningCI,     \* ref(false)                         (part_000:18)
    status,        \* status.value.msg                   (part_000:19)
    loads,         \* loadConfig calls suspended at the await of line 27
    saves,         \* saveConfig calls suspended at the await of line 56
    runs,          \* triggerCI calls suspended at the await of line 69
    timers         \* setTimeout(loadConfig, 2000) timers that have not fired

chatVars == <<messages, history, sessionId, isSending, isTyping, localStorage,
              pending, nextUuid, now, crashed, lastOp, left>>

panelVars == <<mounted, loading, saving, runningCI, status, loads, saves, runs,
               timers>>

vars == <<messages, history, sessionId, isSending, isTyping, localStorage,
          pending, nextUuid, now, crashed, lastOp, left,
          mounted, loading, saving, runningCI, status, loads, saves, runs,
          timers>>

\* The panel as its setup script leaves it (part_000:16-19), before
\* onMounted.
PanelSetup ==
    /\ mounted = FALSE
    /\ loading = FALSE
    /\ saving = FALSE
    /\ runningCI = FALSE
    /\ status = "Connecting..."
    /\ loads = 0
    /\ saves = 0
    /\ runs = 0
    /\ timers = 0

(***************************************************************************)
(* Bounds of the model.                                                    *)
(***************************************************************************)
\* uuidv4() is called at most MaxUuid times in a behaviour.
MaxUuid == 6
\* Date.now() reads 0 .. MaxClock.
MaxClock == 1

\* The questions a user types.
Texts == {"Hi", "What should I eat"}

(***************************************************************************)
(* Values.                                                                 *)
(***************************************************************************)
\* A field that is missing (undefined or null) in a JavaScript object.
Undefined == "<undefined>"

\* x ?? d
Nullish(x, d) == IF x = Undefined THEN d ELSE x

\* Stand-ins for the two fixed texts of the page (the source's are Chinese).
WelcomeText == "welcome"
FailureText == "request failed, please try again later"

Uuid(n) == <<"uuid", n>>
LoadingId(t) == <<"loading", t>>
WelcomeId == <<"welcome", 0>>

\* referenceCases of a message: the key is absent, holds undefined, or holds
\* a list of cases.
NoCases == [kind |-> "absent", cases |-> <<>>]
UndefinedCases == [kind |-> "undefined", cases |-> <<>>]

WelcomeMsg ==
    [id |-> WelcomeId, role |-> "assistant", text |-> WelcomeText,
     loading |-> FALSE, referenceCases |-> NoCases]

UserMsg(n, text) ==
    [id |-> Uuid(n), role |-> "user", text |-> text,
     loading |-> FALSE, referenceCases |-> NoCases]

LoadingMsg(t) ==
    [id |-> LoadingId(t), role |-> "assistant", text |-> "",
     loading |-> TRUE, referenceCases |-> NoCases]

FailureMsg(n) ==
    [id |-> Uuid(n), role |-> "assistant", text |-> FailureText,
     loading |-> FALSE, referenceCases |-> NoCases]

(***************************************************************************)
(* Array.prototype.filter is SelectSeq, Array.prototype.map a function     *)
(* over the indices.                                                       *)
(***************************************************************************)
\* messages.find((m) => m.role === "user"): its index, 0 when there is none.
FirstUserIndex(msgs) ==
    IF \E i \in 1..Len(msgs) : msgs[i].role = "user"
    THEN CHOOSE i \in 1..Len(msgs) :
            /\ msgs[i].role = "user"
            /\ \A j \in 1..(i - 1) : msgs[j].role # "user"
    ELSE 0

(***************************************************************************)
(* localStorage and JSON.                                                  *)
(***************************************************************************)
\* The session an earlier page load left in localStorage; that page load drew
\* the uuids 1 .. FirstUuid - 1.
OldSession == 1
FirstUuid == OldSession + 3

HistoryKey == <<"chat-history", 0>>
SessionKey(id) == <<"session-", id>>
Keys == {HistoryKey} \cup {SessionKey(i) : i \in 1..(MaxUuid + 1)}

\* What a key holds: nothing, the JSON text of a list, text JSON.parse
\* rejects, the JSON text "null", or the JSON text of a value that is not a
\* list (an object, a number).
Absent == [kind |-> "absent", val |-> <<>>]
Unparseable == [kind |-> "unparseable", val |-> <<>>]
JsonNull == [kind |-> "null", val |-> <<>>]
JsonObject == [kind |-> "object", val |-> <<>>]
JsonList(s) == [kind |-> "list", val |-> s]

\* Mutant of StringifyMessage: the flag of a placeholder is not written.
StringifyMessageWithoutLoading(m) ==
    [m EXCEPT !.loading = FALSE,
              !.referenceCases = IF @.kind = "undefined" THEN NoCases ELSE @]

\* JSON.stringify leaves out the keys whose value is undefined.
StringifyMessage(m) ==
    IF m.referenceCases.kind = "undefined"
    THEN [m EXCEPT !.referenceCases = NoCases]
    ELSE m

StringifyMessages(msgs) ==
    JsonList([i \in 1..Len(msgs) |-> StringifyMessage(msgs[i])])
StringifyHistory(h) == JsonList(h)

\* JSON.parse(localStorage.getItem(key) || "[]"): what the parse does.
\*   "throws"  a SyntaxError is thrown
\*   "null"    the value null
\*   "object"  a value that is not an array (it has no length)
\*   "list"    an array, in val
ParseOrEmpty(item) ==
    CASE item.kind = "absent"      -> [kind |-> "list", val |-> <<>>]
      [] item.kind = "unparseable" -> [kind |-> "throws", val |-> <<>>]
      [] item.kind = "null"        -> [kind |-> "null", val |-> <<>>]
      [] item.kind = "object"      -> [kind |-> "object", val |-> <<>>]
      [] OTHER                     -> [kind |-> "list", val |-> item.val]

setItem(store, key, item) == [store EXCEPT ![key] = item]
removeItem(store, key) == [store EXCEPT ![key] = Absent]

(***************************************************************************)
(* The two effects on [messages, sessionId].                               *)
(***************************************************************************)
\* Mutant of Title: the test of line 48 as length >= 12.
TitleCutFromTwelve(text) ==
    IF Len(text) >= 12 THEN SubSeq(text, 1, 12) \o "..." ELSE text

\* The title of a history entry (ChatPage.tsx:47-50).
Title(text) ==
    IF Len(text) > 12 THEN SubSeq(text, 1, 12) \o "..." ELSE text

\* useEffect "Save the current session to local".
SaveEffect(sid, msgs, store) ==
    IF sid = 0 THEN store
    ELSE setItem(store, SessionKey(sid), StringifyMessages(msgs))

\* Mutant of HistoryEffect: the entry of the session is not filtered out of
\* prev (line 44 missing).
HistoryEffectWithoutFilter(sid, msgs, hist) ==
    IF sid = 0 \/ FirstUserIndex(msgs) = 0 THEN hist
    ELSE <<[id |-> sid, title |-> Title(msgs[FirstUserIndex(msgs)].text)]>> \o hist

\* Mutant of HistoryEffect: the entry of the session is put last, not first
\* (line 52 as [...others, cur]).
HistoryEffectAppending(sid, msgs, hist) ==
    IF sid = 0 \/ FirstUserIndex(msgs) = 0 THEN hist
    ELSE LET notCur(h) == h.id # sid
             cur == [id |-> sid, title |-> Title(msgs[FirstUserIndex(msgs)].text)]
         IN SelectSeq(hist, notCur) \o <<cur>>

\* useEffect "Update the history titles on the left": the new history.
HistoryEffect(sid, msgs, hist) ==
    IF sid = 0 \/ FirstUserIndex(msgs) = 0 THEN hist
    ELSE LET notCur(h) == h.id # sid
             cur == [id |-> sid, title |-> Title(msgs[FirstUserIndex(msgs)].text)]
         IN <<cur>> \o SelectSeq(hist, notCur)

\* The effect writes the history to localStorage only when it replaces it.
HistoryEffectStore(sid, msgs, hist, store) ==
    IF sid = 0 \/ FirstUserIndex(msgs) = 0 THEN store
    ELSE setItem(store, HistoryKey, StringifyHistory(HistoryEffect(sid, msgs, hist)))

\* A render after messages or sessionId changed, followed by both effects.
Render(sid, msgs, hist, store, sending, typing) ==
    /\ sessionId' = sid
    /\ messages' = msgs
    /\ isSending' = sending
    /\ isTyping' = typing
    /\ history' = HistoryEffect(sid, msgs, hist)
    /\ localStorage' = HistoryEffectStore(sid, msgs, hist, SaveEffect(sid, msgs, store))

(***************************************************************************)
(* History variable.                                                       *)
(***************************************************************************)
NoReq == [user |-> 0, loadingId |-> LoadingId(0), text |-> "", session |-> 0]

Op(name, arg, outcome, req, answer) ==
    [op |-> name, arg |-> arg, outcome |-> outcome, req |-> req, answer |-> answer]

\* uuidv4() calls still available.
UuidsLeft == MaxUuid - nextUuid + 1

\* left[s] is the log session s had at the moment the page switched away
\* from it; it is empty while s is the active session, when s has never been
\* left and after s has been deleted.
NoneLeft == [s \in 1..(MaxUuid + 1) |-> <<>>]

\* The switch of the page from the active session to the session to.
LeftAfterSwitch(to) ==
    IF to = sessionId THEN left
    ELSE [left EXCEPT ![sessionId] = messages, ![to] = <<>>]

(***************************************************************************)
(* Initialization: the mount effect (ChatPage.tsx:25-29) on a given        *)
(* localStorage, then the render and the effects that follow it.           *)
(***************************************************************************)
Mount(store, firstUuid) ==
    LET saved == ParseOrEmpty(store[HistoryKey]) IN
    /\ pending = {}
    /\ now = 0
    /\ left = NoneLeft
    /\ PanelSetup
    /\ nextUuid = firstUuid + 1
    /\ isSending = FALSE
    /\ isTyping = FALSE
    /\ IF saved.kind = "list"
       THEN /\ crashed = FALSE
            /\ sessionId = firstUuid
            /\ messages = <<WelcomeMsg>>
            /\ history = saved.val
            /\ localStorage = SaveEffect(firstUuid, <<WelcomeMsg>>, store)
            /\ lastOp = Op("mount", 0, "ok", NoReq, "")
       ELSE \* JSON.parse threw inside the effect, or history.map threw in the render
            /\ crashed = TRUE
            /\ sessionId = 0
            /\ messages = <<>>
            /\ history = <<>>
            /\ localStorage = store
            /\ lastOp = Op("mount", 0, "crashed", NoReq, "")

EmptyStore == [k \in Keys |-> Absent]

Init == Mount(EmptyStore, 1)

(***************************************************************************)
(* startNewSession (ChatPage.tsx:59-73).                                   *)
(***************************************************************************)
\* Mutant of startNewSession: the flags are not cleared (lines 62-63 missing).
startNewSessionKeepingFlags ==
    /\ ~crashed
    /\ UuidsLeft >= 1 + Cardinality(pending)
    /\ Render(nextUuid, <<WelcomeMsg>>, history, localStorage, isSending, isTyping)
    /\ nextUuid' = nextUuid + 1
    /\ lastOp' = Op("startNewSession", 0, "ok", NoReq, "")
    /\ left' = LeftAfterSwitch(nextUuid)
    /\ UNCHANGED <<pending, now, crashed, panelVars>>

startNewSession ==
    /\ ~crashed
    /\ UuidsLeft >= 1 + Cardinality(pending)
    /\ Render(nextUuid, <<WelcomeMsg>>, history, localStorage, FALSE, FALSE)
    /\ nextUuid' = nextUuid + 1
    /\ lastOp' = Op("startNewSession", 0, "ok", NoReq, "")
    /\ left' = LeftAfterSwitch(nextUuid)
    /\ UNCHANGED <<pending, now, crashed, panelVars>>

(***************************************************************************)
(* loadHistory (ChatPage.tsx:76-84), on the history and the localStorage   *)
(* its caller has produced so far.                                         *)
(***************************************************************************)
\* Mutant of LoadOutcome: the test of line 78 lets an empty transcript through.
LoadOutcomeWithoutEmptyTest(id, store) ==
    LET saved == ParseOrEmpty(store[SessionKey(id)]) IN
    CASE saved.kind = "throws" -> "threw"
      [] saved.kind = "null"   -> "noop"
      [] saved.kind = "object" -> "crashed"
      [] OTHER                 -> "loaded"

\* What loadHistory(id) does on a store:
\*   "threw"    JSON.parse threw out of the handler
\*   "noop"     the early return of line 78
\*   "crashed"  a value without a length passed line 78 and became messages
\*   "loaded"   the transcript became the log
LoadOutcome(id, store) ==
    LET saved == ParseOrEmpty(store[SessionKey(id)]) IN
    CASE saved.kind = "throws" -> "threw"
      [] saved.kind = "null"   -> "noop"
      [] saved.kind = "object" -> "crashed"
      [] saved.val = <<>>      -> "noop"
      [] OTHER                 -> "loaded"

loadHistoryOn(id, hist, store) ==
    LET saved == ParseOrEmpty(store[SessionKey(id)]) IN
    IF LoadOutcome(id, store) = "loaded"
    THEN /\ Render(id, saved.val, hist, store, FALSE, FALSE)
         /\ crashed' = FALSE
    ELSE /\ history' = hist
         /\ localStorage' = store
         /\ crashed' = (LoadOutcome(id, store) = "crashed")
         /\ UNCHANGED <<sessionId, messages, isSending, isTyping>>

\* The ids the side bar offers (ChatPage.tsx:203-221).
HistoryIds == {history[i].id : i \in 1..Len(history)}

\* A click on a history item.
loadHistory(id) ==
    /\ ~crashed
    /\ id \in HistoryIds
    /\ loadHistoryOn(id, history, localStorage)
    /\ lastOp' = Op("loadHistory", id, LoadOutcome(id, localStorage), NoReq, "")
    /\ left' = IF LoadOutcome(id, localStorage) = "loaded"
               THEN LeftAfterSwitch(id) ELSE left
    /\ UNCHANGED <<pending, nextUuid, now, panelVars>>

(***************************************************************************)
(* deleteHistory (ChatPage.tsx:87-100).                                    *)
(***************************************************************************)
\* history.filter((h) => h.id !== id)
WithoutId(hist, id) == LET keep(h) == h.id # id IN SelectSeq(hist, keep)

\* localStorage after lines 90-91.
StoreWithoutId(id) ==
    removeItem(setItem(localStorage, HistoryKey, StringifyHistory(WithoutId(history, id))),
               SessionKey(id))

\* Lines 93-99 when id is the active session.
deleteHistoryActive(id) ==
    LET updated == WithoutId(history, id)
        store == StoreWithoutId(id)
    IN IF Len(updated) > 0
       THEN /\ loadHistoryOn(updated[1].id, updated, store)
            /\ lastOp' = Op("deleteHistory", id, LoadOutcome(updated[1].id, store), NoReq, "")
            /\ left' = IF LoadOutcome(updated[1].id, store) = "loaded"
                       THEN [left EXCEPT ![updated[1].id] = <<>>] ELSE left
            /\ UNCHANGED nextUuid
       ELSE /\ UuidsLeft >= 1 + Cardinality(pending)
            /\ Render(nextUuid, <<WelcomeMsg>>, updated, store, FALSE, FALSE)
            /\ nextUuid' = nextUuid + 1
            /\ lastOp' = Op("deleteHistory", id, "new", NoReq, "")
            /\ UNCHANGED <<crashed, left>>

\* Lines 88-91 alone, when id is not the active session.
deleteHistoryOther(id) ==
    /\ history' = WithoutId(history, id)
    /\ localStorage' = StoreWithoutId(id)
    /\ lastOp' = Op("deleteHistory", id, "other", NoReq, "")
    /\ left' = [left EXCEPT ![id] = <<>>]
    /\ UNCHANGED <<sessionId, messages, isSending, isTyping, nextUuid, crashed>>

\* Mutant of deleteHistory: lines 93-99 are missing.
deleteHistoryWithoutFallback(id) ==
    /\ ~crashed
    /\ id \in HistoryIds
    /\ deleteHistoryOther(id)
    /\ UNCHANGED <<pending, now, panelVars>>

\* Mutant of deleteHistory: the test of line 93 is missing.
deleteHistoryAlwaysFallsBack(id) ==
    /\ ~crashed
    /\ id \in HistoryIds
    /\ deleteHistoryActive(id)
    /\ UNCHANGED <<pending, now, panelVars>>

deleteHistory(id) ==
    /\ ~crashed
    /\ id \in HistoryIds
    /\ IF id = sessionId THEN deleteHistoryActive(id) ELSE deleteHistoryOther(id)
    /\ UNCHANGED <<pending, now, panelVars>>

(***************************************************************************)
(* send (ChatPage.tsx:103-171): up to the await of line 120.               *)
(***************************************************************************)
\* The early return of line 104.
sendRejected ==
    /\ lastOp' = Op("send", 0, "rejected", NoReq, "")
    /\ UNCHANGED <<messages, history, sessionId, isSending, isTyping,
                   localStorage, pending, nextUuid, left>>

\* Mutant of sendAccepted: the placeholder is not appended with the user
\* message (line 115 as [...prev, userMsg]).
sendAcceptedWithoutPlaceholder(text) ==
    LET req == [user |-> nextUuid, loadingId |-> LoadingId(now),
                text |-> text, session |-> sessionId]
    IN /\ UuidsLeft >= 2 + Cardinality(pending)
       /\ Render(sessionId, messages \o <<UserMsg(nextUuid, text)>>,
                 history, localStorage, TRUE, isTyping)
       /\ nextUuid' = nextUuid + 1
       /\ pending' = pending \cup {req}
       /\ lastOp' = Op("send", 0, "accepted", req, "")
       /\ UNCHANGED left

\* Lines 106-120: the user message and the placeholder, then the request.
sendAccepted(text) ==
    LET req == [user |-> nextUuid, loadingId |-> LoadingId(now),
                text |-> text, session |-> sessionId]
    IN /\ UuidsLeft >= 2 + Cardinality(pending)
       /\ Render(sessionId,
                 messages \o <<UserMsg(nextUuid, text), LoadingMsg(now)>>,
                 history, localStorage, TRUE, isTyping)
       /\ nextUuid' = nextUuid + 1
       /\ pending' = pending \cup {req}
       /\ lastOp' = Op("send", 0, "accepted", req, "")
       /\ UNCHANGED left

\* Mutant of send: the guard of line 104 without isTyping.
sendWhileTyping(text) ==
    /\ ~crashed
    /\ IF isSending THEN sendRejected ELSE sendAccepted(text)
    /\ UNCHANGED <<now, crashed, panelVars>>

send(text) ==
    /\ ~crashed
    /\ IF isSending \/ isTyping THEN sendRejected ELSE sendAccepted(text)
    /\ UNCHANGED <<now, crashed, panelVars>>

(***************************************************************************)
(* askQuestion (chat.ts:34-44) and the continuation of send.               *)
(***************************************************************************)
\* The body of a 2xx response (resp.data), as the server chose it.
Item1 == [id |-> 7, ask |-> "q1", answer |-> "a1", department |-> Undefined]
Item2 == [id |-> 7, ask |-> Undefined, answer |-> "a2", department |-> "d2"]

NoContext == [kind |-> "absent", items |-> <<>>]
NotArrayContext == [kind |-> "notArray", items |-> <<>>]
ArrayContext(items) == [kind |-> "array", items |-> items]

\* The bodies the remote service answers with in the page's behaviours.
Datas ==
    { [answer |-> Undefined, context |-> NoContext],
      [answer |-> "A", context |-> ArrayContext(<<Item1>>)] }

\* askQuestion: the normalised {answer, context} of a response body.
askQuestion(data) ==
    [answer |-> Nullish(data.answer, ""),
     context |-> IF data.context.kind = "array" THEN data.context.items ELSE <<>>]

\* Mutant of ReferenceCases: the id of the payload is kept (line 127 as
\* id: c.id).
ReferenceCasesWithPayloadId(rawContext) ==
    [i \in 1..Len(rawContext) |->
        [id |-> rawContext[i].id,
         question |-> Nullish(rawContext[i].ask, ""),
         answer |-> Nullish(rawContext[i].answer, ""),
         department |-> Nullish(rawContext[i].department, "")]]

\* rawContext.map((c, index) => ...) of ChatPage.tsx:126-131.
ReferenceCases(rawContext) ==
    [i \in 1..Len(rawContext) |->
        [id |-> i,
         question |-> Nullish(rawContext[i].ask, ""),
         answer |-> Nullish(rawContext[i].answer, ""),
         department |-> Nullish(rawContext[i].department, "")]]

\* The message that replaces the placeholder (ChatPage.tsx:139-146).
ResolvedMsg(n, res) ==
    LET referenceCases == ReferenceCases(res.context) IN
    [id |-> Uuid(n), role |-> "assistant", text |-> Nullish(res.answer, ""),
     loading |-> FALSE,
     referenceCases |-> IF Len(referenceCases) > 0
                        THEN [kind |-> "list", cases |-> referenceCases]
                        ELSE UndefinedCases]

\* prev.map((m) => m.id === loadingMsg.id ? by : m)
ReplaceLoading(prev, loadingId, by) ==
    [i \in 1..Len(prev) |-> IF prev[i].id = loadingId THEN by ELSE prev[i]]

\* The await of line 120 resolved: lines 122-152, then finally.
respondOk(req, data) ==
    /\ ~crashed
    /\ req \in pending
    /\ Render(sessionId,
              ReplaceLoading(messages, req.loadingId, ResolvedMsg(nextUuid, askQuestion(data))),
              history, localStorage, FALSE, TRUE)
    /\ nextUuid' = nextUuid + 1
    /\ pending' = pending \ {req}
    /\ lastOp' = Op("respondOk", 0, "ok", req, askQuestion(data).answer)
    /\ UNCHANGED <<now, crashed, left, panelVars>>

\* Mutant of respondFail: the finally block of lines 167-170 is missing.
respondFailKeepingSending(req) ==
    /\ ~crashed
    /\ req \in pending
    /\ Render(sessionId,
              ReplaceLoading(messages, req.loadingId, FailureMsg(nextUuid)),
              history, localStorage, isSending, FALSE)
    /\ nextUuid' = nextUuid + 1
    /\ pending' = pending \ {req}
    /\ lastOp' = Op("respondFail", 0, "ok", req, "")
    /\ UNCHANGED <<now, crashed, left, panelVars>>

\* The await of line 120 rejected (transport failure or a status that is
\* not 2xx): lines 153-166, then finally.
respondFail(req) ==
    /\ ~crashed
    /\ req \in pending
    /\ Render(sessionId,
              ReplaceLoading(messages, req.loadingId, FailureMsg(nextUuid)),
              history, localStorage, FALSE, FALSE)
    /\ nextUuid' = nextUuid + 1
    /\ pending' = pending \ {req}
    /\ lastOp' = Op("respondFail", 0, "ok", req, "")
    /\ UNCHANGED <<now, crashed, left, panelVars>>

(***************************************************************************)
(* onLastTypingDone (ChatPage.tsx:231): the view reports that the reveal   *)
(* animation has ended.                                                    *)
(***************************************************************************)
onLastTypingDone ==
    /\ ~crashed
    /\ isTyping
    /\ isTyping' = FALSE
    /\ lastOp' = Op("onLastTypingDone", 0, "ok", NoReq, "")
    /\ UNCHANGED <<messages, history, sessionId, isSending, localStorage,
                   pending, nextUuid, now, crashed, left, panelVars>>

\* Time passes: Date.now() reads a later millisecond.
Tick ==
    /\ ~crashed
    /\ now < MaxClock
    /\ now' = now + 1
    /\ UNCHANGED <<messages, history, sessionId, isSending, isTyping,
                   localStorage, pending, nextUuid, crashed, lastOp, left, panelVars>>

Next ==
    \/ startNewSession
    \/ \E id \in HistoryIds : loadHistory(id)
    \/ \E id \in HistoryIds : deleteHistory(id)
    \/ \E text \in Texts : send(text)
    \/ \E req \in pending, data \in Datas : respondOk(req, data)
    \/ \E req \in pending : respondFail(req)
    \/ onLastTypingDone
    \/ Tick

Spec == Init /\ [][Next]_vars

(***************************************************************************)
(* The page with its environment doing its part: the promise of every      *)
(* request is settled at some time (axios resolves or rejects it, at the   *)
(* latest on its timeout), and the message list reports the end of the     *)
(* reveal animation at some time whenever isTyping is set.  The user is    *)
(* under no obligation: no fairness on the clicks and on send.             *)
(***************************************************************************)
Settle ==
    \E req \in pending :
        \/ respondFail(req)
        \/ \E data \in Datas : respondOk(req, data)

SpecLive ==
    /\ Init
    /\ [][Next]_vars
    /\ WF_vars(Settle)
    /\ WF_vars(onLastTypingDone)

(***************************************************************************)
(* The page mounted on a localStorage that an earlier page load, another   *)
(* script of the origin or the user has left behind: one older session,    *)
(* listed in the history index, whose transcript key holds any kind of     *)
(* item, or a history index that is not the JSON text of a list.           *)
(***************************************************************************)
OldEntry == [id |-> OldSession, title |-> "Hi"]
OldTranscript == <<WelcomeMsg, UserMsg(OldSession + 1, "Hi"), FailureMsg(OldSession + 2)>>

StoreWith(h, t) ==
    [k \in Keys |-> IF k = HistoryKey THEN h
                    ELSE IF k = SessionKey(OldSession) THEN t
                    ELSE Absent]

OldTranscriptItems ==
    {Absent, JsonList(<<>>), JsonList(OldTranscript), Unparseable, JsonNull, JsonObject}

OldStores ==
    {StoreWith(JsonList(<<OldEntry>>), t) : t \in OldTranscriptItems}
    \cup {StoreWith(h, JsonList(OldTranscript)) : h \in {Unparseable, JsonNull, JsonObject}}

InitStore ==
    \/ Mount(EmptyStore, 1)
    \/ \E store \in OldStores : Mount(store, FirstUuid)

SpecStore == InitStore /\ [][Next]_vars

(***************************************************************************)
(* One session of the page under the whole range of inputs: texts up to    *)
(* and beyond the 12 characters a title keeps, and response bodies whose   *)
(* context is missing, is not an array, or is an array of objects with     *)
(* missing fields and ids of their own.                                    *)
(***************************************************************************)
InputTexts == {"Hi", "twelve chars", "thirteen char", "What should I eat"}

Item3 == [id |-> 1, ask |-> "q3", answer |-> Undefined, department |-> "d3"]

InputContexts ==
    {NoContext, NotArrayContext, ArrayContext(<<>>),
     ArrayContext(<<Item1, Item2>>), ArrayContext(<<Item2, Item1>>),
     ArrayContext(<<Item1, Item3>>)}

InputDatas == Datas \cup {[answer |-> "A", context |-> c] : c \in InputContexts}

NextInputs ==
    \/ \E text \in InputTexts : send(text)
    \/ \E req \in pending, data \in InputDatas : respondOk(req, data)
    \/ \E req \in pending : respondFail(req)
    \/ onLastTypingDone

SpecInputs == Init /\ [][NextInputs]_vars

(***************************************************************************)
(* The Git-Guard configuration panel (src/unnamed/part_000).  An async     *)
(* function runs up to its await in the handler that called it; what       *)
(* follows the await runs when the request is settled.  The contents of    *)
(* config and of ciStatusInfo play no part in the flags and are left out.  *)
(***************************************************************************)
\* At most MaxLoads loadConfig calls are scheduled or outstanding at a time.
MaxLoads == 4

\* loadConfig up to the await of line 27.
loadConfig ==
    /\ loading' = TRUE
    /\ loads' = loads + 1

\* onMounted (lines 80-82).
onMounted ==
    /\ ~mounted
    /\ mounted' = TRUE
    /\ loadConfig
    /\ UNCHANGED <<saving, runningCI, status, saves, runs, timers, chatVars>>

\* Promise.all of line 27 fulfilled: lines 33-44, then finally.
loadConfigOk ==
    /\ loads > 0
    /\ loads' = loads - 1
    /\ status' = "System Online"
    /\ loading' = FALSE
    /\ UNCHANGED <<mounted, saving, runningCI, saves, runs, timers, chatVars>>

\* Promise.all of line 27 rejected: lines 45-47, then finally.
loadConfigFail ==
    /\ loads > 0
    /\ loads' = loads - 1
    /\ status' = "Server Disconnected"
    /\ loading' = FALSE
    /\ UNCHANGED <<mounted, saving, runningCI, saves, runs, timers, chatVars>>

\* The form is rendered only while loading is false (lines 106-110).
FormShown == mounted /\ ~loading

\* A submit of the form up to the await of line 56; the submit button is
\* disabled while saving is set (line 208).
saveConfig ==
    /\ FormShown
    /\ ~saving
    /\ saving' = TRUE
    /\ saves' = saves + 1
    /\ UNCHANGED <<mounted, loading, runningCI, status, loads, runs, timers, chatVars>>

\* The post of line 56 settled, either way: the alert, then finally.
saveConfigSettled ==
    /\ saves > 0
    /\ saves' = saves - 1
    /\ saving' = FALSE
    /\ UNCHANGED <<mounted, loading, runningCI, status, loads, runs, timers, chatVars>>

\* A click on "Run Pipeline Now" up to the await of line 69; the button is
\* disabled while runningCI is set (line 194).
triggerCI ==
    /\ FormShown
    /\ ~runningCI
    /\ loads + timers + runs < MaxLoads
    /\ runningCI' = TRUE
    /\ runs' = runs + 1
    /\ UNCHANGED <<mounted, loading, saving, status, loads, saves, timers, chatVars>>

\* The post of line 69 fulfilled: the alert, setTimeout(loadConfig, 2000),
\* then finally.
triggerCIOk ==
    /\ runs > 0
    /\ runs' = runs - 1
    /\ timers' = timers + 1
    /\ runningCI' = FALSE
    /\ UNCHANGED <<mounted, loading, saving, status, loads, saves, chatVars>>

\* The post of line 69 rejected: the alert, then finally.
triggerCIFail ==
    /\ runs > 0
    /\ runs' = runs - 1
    /\ runningCI' = FALSE
    /\ UNCHANGED <<mounted, loading, saving, status, loads, saves, timers, chatVars>>

\* A timer of line 72 fires: loadConfig is called.
timerFires ==
    /\ timers > 0
    /\ timers' = timers - 1
    /\ loadConfig
    /\ UNCHANGED <<mounted, saving, runningCI, status, saves, runs, chatVars>>

NextPanel ==
    \/ onMounted
    \/ loadConfigOk
    \/ loadConfigFail
    \/ saveConfig
    \/ saveConfigSettled
    \/ triggerCI
    \/ triggerCIOk
    \/ triggerCIFail
    \/ timerFires

SpecPanel == Init /\ [][NextPanel]_vars

(***************************************************************************)
(* Helpers of the properties.                                              *)
(***************************************************************************)
Idle == ~isSending /\ ~isTyping

SessionIds == 1..(MaxUuid + 1)

\* The log of session s: the active log, or else its persisted transcript.
LogOf(s) ==
    IF s = sessionId THEN messages
    ELSE IF localStorage[SessionKey(s)].kind = "list" THEN localStorage[SessionKey(s)].val
    ELSE <<>>

\* Session s is the active one or has a persisted transcript.
Exists(s) == s = sessionId \/ localStorage[SessionKey(s)].kind # "absent"

HasUser(log) == \E i \in 1..Len(log) : log[i].role = "user"

(***************************************************************************)
(* C1: at most one request issued from any one session is outstanding.     *)
(* The code does not keep it: loadHistory and startNewSession clear        *)
(* isSending without cancelling the request, so a session that is loaded   *)
(* again while its request is outstanding accepts a second send.           *)
(***************************************************************************)
C1_OneOutstandingPerSession ==
    \A r1, r2 \in pending : r1.session = r2.session => r1 = r2

(***************************************************************************)
(* C2: a send made while isSending or isTyping is rejected and changes     *)
(* nothing: not the log, the session id, the history, localStorage, the    *)
(* flags, and no request is issued (and no uuid is drawn).                 *)
(***************************************************************************)
C2_RejectedSendChangesNothing ==
    [][ \A text \in Texts :
          ((isSending \/ isTyping) /\ send(text))
             => UNCHANGED <<messages, sessionId, history, localStorage,
                            isSending, isTyping, pending, nextUuid>> ]_vars

\* A send was rejected while a request was outstanding.
C2_Witness ==
    /\ lastOp.op = "send"
    /\ lastOp.outcome = "rejected"
    /\ isSending
    /\ pending # {}

(***************************************************************************)
(* C3: once the continuation of a successful send(Q) has run, the log of   *)
(* the session in which Q was sent (while that session exists) holds the   *)
(* user message Q immediately followed by an assistant message with the    *)
(* resolved answer, and no placeholder of that request.                    *)
(* The code does not keep it for a session left before the answer came:    *)
(* the continuation maps over the log that is active when it runs.         *)
(***************************************************************************)
C3_AnswerFollowsQuestion ==
    (lastOp.op = "respondOk" /\ Exists(lastOp.req.session)) =>
        LET log == LogOf(lastOp.req.session) IN
        /\ \E i \in 1..(Len(log) - 1) :
              /\ log[i].id = Uuid(lastOp.req.user)
              /\ log[i].role = "user"
              /\ log[i].text = lastOp.req.text
              /\ log[i + 1].role = "assistant"
              /\ ~log[i + 1].loading
              /\ log[i + 1].text = lastOp.answer
        /\ \A i \in 1..Len(log) : log[i].id # lastOp.req.loadingId

(***************************************************************************)
(* C4: once the continuation of a failed send(Q) has run, the placeholder  *)
(* of the request has been replaced in the log of its session by an        *)
(* assistant message with the fixed failure text, that message is the last *)
(* of the log, isSending and isTyping are false and the page has not       *)
(* crashed.  The code does not keep it, for the reason of C1 and C3.       *)
(***************************************************************************)
C4_FailureReplacesPlaceholder ==
    (lastOp.op = "respondFail" /\ Exists(lastOp.req.session)) =>
        LET log == LogOf(lastOp.req.session) IN
        /\ \A i \in 1..Len(log) : log[i].id # lastOp.req.loadingId
        /\ Len(log) > 0
        /\ log[Len(log)].role = "assistant"
        /\ log[Len(log)].text = FailureText
        /\ ~log[Len(log)].loading
        /\ ~isSending
        /\ ~isTyping
        /\ ~crashed

(***************************************************************************)
(* C5: deleteHistory(id) of the active session leaves another, valid       *)
(* session active.  If history entries remain, it is the first remaining   *)
(* entry and the log is its persisted transcript; if none remain, it is a  *)
(* fresh session whose log is the welcome message alone, and the history   *)
(* is empty.  (localStorage as the page itself has written it.)            *)
(***************************************************************************)
C5_DeleteActiveFallsBack ==
    [][ \A id \in HistoryIds :
          (id = sessionId /\ deleteHistory(id)) =>
             LET remaining == WithoutId(history, id) IN
             /\ sessionId' # id
             /\ localStorage'[SessionKey(sessionId')] = StringifyMessages(messages')
             /\ IF Len(remaining) > 0
                THEN /\ sessionId' = remaining[1].id
                     /\ localStorage[SessionKey(sessionId')] = JsonList(messages')
                     /\ sessionId' \in HistoryIds'
                ELSE /\ sessionId' \notin HistoryIds
                     /\ localStorage[SessionKey(sessionId')] = Absent
                     /\ messages' = <<WelcomeMsg>>
                     /\ history' = <<>> ]_vars

\* The active session was deleted while another entry remained, with a
\* request of the deleted session outstanding.
C5_Witness ==
    /\ lastOp.op = "deleteHistory"
    /\ lastOp.outcome = "loaded"
    /\ Len(history) > 0
    /\ \E r \in pending : r.session = lastOp.arg

(***************************************************************************)
(* C6: deleteHistory(id) of a session that is not the active one leaves    *)
(* the active session id and the active log unchanged, removes exactly the *)
(* entry id from the history (the others keep their order) and exactly the *)
(* transcript of id from localStorage.                                     *)
(***************************************************************************)
C6_DeleteOtherKeepsActive ==
    [][ \A id \in HistoryIds :
          (id # sessionId /\ deleteHistory(id)) =>
             /\ sessionId' = sessionId
             /\ messages' = messages
             /\ history' = WithoutId(history, id)
             /\ localStorage'[HistoryKey] = StringifyHistory(history')
             /\ localStorage'[SessionKey(id)] = Absent
             /\ \A s \in SessionIds \ {id} :
                   localStorage'[SessionKey(s)] = localStorage[SessionKey(s)] ]_vars

\* A session that is not the active one was deleted while other entries stay.
C6_Witness ==
    /\ lastOp.op = "deleteHistory"
    /\ lastOp.outcome = "other"
    /\ lastOp.arg # sessionId
    /\ Len(history) > 0

(***************************************************************************)
(* C7: loadHistory(id) is a no-op when the transcript of id is absent or   *)
(* the empty list; when it is a non-empty list, the active id becomes id,  *)
(* the log becomes the transcript and both flags are cleared.              *)
(***************************************************************************)
C7_LoadIsNoOpOrLoads ==
    [][ \A id \in HistoryIds :
          loadHistory(id) =>
             LET item == localStorage[SessionKey(id)] IN
             /\ (item = Absent \/ item = JsonList(<<>>)) =>
                   UNCHANGED <<sessionId, messages, isSending, isTyping,
                               history, localStorage>>
             /\ (item.kind = "list" /\ item.val # <<>>) =>
                   /\ sessionId' = id
                   /\ messages' = item.val
                   /\ ~isSending'
                   /\ ~isTyping' ]_vars

\* loadHistory returned early while a request was outstanding.
C7_Witness ==
    /\ lastOp.op = "loadHistory"
    /\ lastOp.outcome = "noop"
    /\ localStorage[SessionKey(lastOp.arg)] \in {Absent, JsonList(<<>>)}
    /\ isSending

(***************************************************************************)
(* C8 as stated: startNewSession, loadHistory and deleteHistory each leave *)
(* the page Idle.  It fails: deleteHistory of a session that is not the    *)
(* active one does not touch the flags.                                    *)
(***************************************************************************)
C8_LifecycleLeavesIdle ==
    lastOp.op \in {"startNewSession", "loadHistory", "deleteHistory"} => Idle

\* The transcript of id is a non-empty list.
Loads(id) ==
    /\ localStorage[SessionKey(id)].kind = "list"
    /\ localStorage[SessionKey(id)].val # <<>>

\* The transcript of id is absent or the empty list.
Empty(id) == localStorage[SessionKey(id)] \in {Absent, JsonList(<<>>)}

(***************************************************************************)
(* C8 as amended: startNewSession, a loadHistory(id) that loads (the       *)
(* transcript of id is a non-empty list) and a deleteHistory of the active *)
(* session that starts a new session or loads the first remaining entry    *)
(* leave the page Idle; a deleteHistory of another session, and a          *)
(* loadHistory or a fall-back that finds the transcript absent or empty,   *)
(* leave both flags as they were.                                          *)
(***************************************************************************)
C8_LifecycleIdleOrUnchanged ==
    [][ /\ startNewSession => Idle'
        /\ \A id \in HistoryIds :
              /\ (loadHistory(id) /\ Loads(id)) => Idle'
              /\ (loadHistory(id) /\ Empty(id)) => UNCHANGED <<isSending, isTyping>>
              /\ (deleteHistory(id) /\ id # sessionId) => UNCHANGED <<isSending, isTyping>>
              /\ (deleteHistory(id) /\ id = sessionId) =>
                    LET remaining == WithoutId(history, id) IN
                    /\ (remaining = <<>> \/ Loads(remaining[1].id)) => Idle'
                    /\ (remaining # <<>> /\ Empty(remaining[1].id)) =>
                          UNCHANGED <<isSending, isTyping>> ]_vars

\* A session that is not the active one was deleted while a request was
\* outstanding: isSending stays true.
C8_Witness ==
    /\ lastOp.op = "deleteHistory"
    /\ lastOp.outcome = "other"
    /\ isSending

\* An item that is not the JSON text of a list.
Malformed(item) == item.kind \in {"unparseable", "null", "object"}

(***************************************************************************)
(* C9: a malformed value under the history key or under a transcript key   *)
(* makes no read fail: mounting yields the empty history and loadHistory   *)
(* of that id is a no-op.  The code does not keep it: JSON.parse is not    *)
(* guarded, and a parsed value that is not a list is put into the state.   *)
(***************************************************************************)
C9_MalformedReadsAsEmpty ==
    /\ ~crashed
    /\ (lastOp.op = "mount" /\ Malformed(localStorage[HistoryKey])) => history = <<>>
    /\ (lastOp.op = "loadHistory" /\ Malformed(localStorage[SessionKey(lastOp.arg)])) =>
          lastOp.outcome = "noop"

\* No id is listed twice, and the listed ids are those of the sessions with
\* a user message.
HistoryMatchesSessions ==
    /\ \A i, j \in 1..Len(history) : history[i].id = history[j].id => i = j
    /\ \A s \in SessionIds :
          s \in HistoryIds <=> (Exists(s) /\ HasUser(LogOf(s)))

(***************************************************************************)
(* C10: the history holds no two entries of one id, and it holds an entry  *)
(* of a session id exactly when that session (the active one or a          *)
(* persisted one) has a user message in its log; deleteHistory(id) removes *)
(* the entry of id and its persisted transcript.                           *)
(***************************************************************************)
C10_HistoryMatchesSessions ==
    /\ []HistoryMatchesSessions
    /\ [][ \A id \in HistoryIds :
             deleteHistory(id) =>
                /\ id \notin HistoryIds'
                /\ localStorage'[SessionKey(id)] = Absent ]_vars

\* Of two listed sessions one was deleted: the other is still listed, and
\* the deleted one exists no more.
C10_Witness ==
    /\ lastOp.op = "deleteHistory"
    /\ Len(history) = 1
    /\ ~Exists(lastOp.arg)
    /\ HasUser(LogOf(history[1].id))

\* The entry of the active session is first and carries the derived title.
ActiveSessionFirst ==
    HasUser(messages) =>
        /\ Len(history) > 0
        /\ history[1].id = sessionId
        /\ history[1].title = Title(messages[FirstUserIndex(messages)].text)

(***************************************************************************)
(* C11: whenever the active log holds a user message, the first entry of  *)
(* the history is the entry of the active session and its title is the    *)
(* title of the first user message of the log; every step keeps the other  *)
(* entries (but one that it deletes) in their order, so the history is     *)
(* ordered most recently active first.  (localStorage as the page itself   *)
(* has written it.)                                                        *)
(***************************************************************************)
C11_ActiveSessionListedFirst ==
    /\ []ActiveSessionFirst
    /\ [][ \E d \in HistoryIds \cup {0} :
             WithoutId(history', sessionId')
                = WithoutId(WithoutId(history, sessionId'), d) ]_vars

\* A session listed second was loaded again: it is listed first now.
C11_Witness ==
    /\ lastOp.op = "loadHistory"
    /\ lastOp.outcome = "loaded"
    /\ Len(history) = 2
    /\ HasUser(messages)
    /\ history[1].id = sessionId

(***************************************************************************)
(* C12: no two messages of the log of a session share an id.  The code     *)
(* does not keep it: the id of a placeholder is the reading of Date.now(), *)
(* and two sends of one session can read the same millisecond.             *)
(***************************************************************************)
C12_MessageIdsUnique ==
    \A s \in SessionIds :
        \A i, j \in 1..Len(LogOf(s)) :
            LogOf(s)[i].id = LogOf(s)[j].id => i = j

(***************************************************************************)
(* C13: the transcript survives the round trip through localStorage.  The  *)
(* key of the active session always holds the whole active log, and every  *)
(* step that switches the page to a session that was left earlier and not  *)
(* deleted since (a click on its history entry, or the fall back after the *)
(* active session was deleted) makes the log the one that session had when *)
(* it was left: the same messages in the same order, whatever was sent,    *)
(* answered, started, loaded or deleted in between.  A key that held       *)
(* undefined when the session was left (referenceCases of an answer        *)
(* without cases) is absent after the round trip; both read as undefined.  *)
(***************************************************************************)
\* What reading each field of a message gives.
Reads(m) ==
    [id |-> m.id, role |-> m.role, text |-> m.text, loading |-> m.loading,
     referenceCases |-> IF m.referenceCases.kind = "list"
                        THEN m.referenceCases.cases ELSE <<Undefined>>]

SameContent(a, b) ==
    /\ Len(a) = Len(b)
    /\ \A i \in 1..Len(a) : Reads(a[i]) = Reads(b[i])

SavedInFull ==
    /\ localStorage[SessionKey(sessionId)].kind = "list"
    /\ SameContent(localStorage[SessionKey(sessionId)].val, messages)

C13_TranscriptRoundTrip ==
    /\ []SavedInFull
    /\ [][ (sessionId' # sessionId /\ lastOp'.outcome = "loaded")
             => /\ Len(left[sessionId']) > 0
                /\ SameContent(messages', left[sessionId']) ]_vars

\* Session 1 was left with an unanswered question, a second session asked
\* and was answered, and session 1 has been loaded again.
C13_Witness ==
    /\ lastOp.op = "loadHistory"
    /\ lastOp.outcome = "loaded"
    /\ sessionId = 1
    /\ Len(history) = 2
    /\ Len(messages) = 3
    /\ messages[3].loading
    /\ pending = {}

(***************************************************************************)
(* C14: the title of a session is the text of its first user message when  *)
(* that text has at most 12 characters, and otherwise its first 12         *)
(* characters followed by "..."; a later user message of the session       *)
(* leaves the title as it is.                                              *)
(***************************************************************************)
TitleDerived ==
    HasUser(messages) =>
        LET t == messages[FirstUserIndex(messages)].text
            title == history[1].title
        IN IF Len(t) <= 12
           THEN title = t
           ELSE /\ Len(title) = 15
                /\ SubSeq(title, 1, 12) = SubSeq(t, 1, 12)
                /\ SubSeq(title, 13, 15) = "..."

C14_TitleDerivation ==
    /\ []TitleDerived
    /\ [][ \A text \in InputTexts :
             (HasUser(messages) /\ send(text)) => history' = history ]_vars

\* A long first question, answered, and a second question with another text.
C14_Witness ==
    /\ Len(messages) = 5
    /\ messages[2].text = "What should I eat"
    /\ messages[4].text = "twelve chars"
    /\ history[1].title = "What should ..."

(***************************************************************************)
(* C15: a successful response whose context is missing or is not an array  *)
(* is shown as an answer (not as the failure message) without reference    *)
(* cases; a context array of n objects gives n reference cases in the      *)
(* order of the array, the i-th with id i whatever id the object carries,   *)
(* and with "" for a field the object lacks.                               *)
(***************************************************************************)
OrEmpty(x) == IF x = Undefined THEN "" ELSE x

Normalized(data, msg) ==
    /\ msg.role = "assistant"
    /\ ~msg.loading
    /\ msg.text = OrEmpty(data.answer)
    /\ msg.text # FailureText
    /\ IF data.context.kind = "array" /\ Len(data.context.items) > 0
       THEN /\ msg.referenceCases.kind = "list"
            /\ Len(msg.referenceCases.cases) = Len(data.context.items)
            /\ \A i \in 1..Len(data.context.items) :
                  msg.referenceCases.cases[i] =
                     [id |-> i,
                      question |-> OrEmpty(data.context.items[i].ask),
                      answer |-> OrEmpty(data.context.items[i].answer),
                      department |-> OrEmpty(data.context.items[i].department)]
       ELSE /\ msg.referenceCases.kind # "list"
            /\ askQuestion(data).context = <<>>

C15_ReferenceCasesNormalized ==
    [][ \A req \in pending, data \in InputDatas :
          respondOk(req, data) =>
              \A i \in 1..Len(messages) :
                  messages[i].id = req.loadingId => Normalized(data, messages'[i]) ]_vars

\* An answer with two reference cases whose payload ids are 7 and 1.
C15_Witness ==
    /\ lastOp.op = "respondOk"
    /\ Len(messages) = 3
    /\ messages[3].referenceCases.kind = "list"
    /\ Len(messages[3].referenceCases.cases) = 2
    /\ messages[3].referenceCases.cases[2].question = "q3"
    /\ messages[3].referenceCases.cases[2].id = 2

(***************************************************************************)
(* C16: in the active log and in every persisted transcript each user      *)
(* message is immediately followed by an assistant message; a user message *)
(* is never the last message nor followed by a user message.               *)
(***************************************************************************)
C16_UserFollowedByAssistant ==
    \A s \in SessionIds :
        \A i \in 1..Len(LogOf(s)) :
            LogOf(s)[i].role = "user" =>
                /\ i < Len(LogOf(s))
                /\ LogOf(s)[i + 1].role = "assistant"

\* A session was left with its placeholder and a second question was sent in
\* it after it was loaded again: two user messages, each followed by an
\* assistant message.
C16_Witness ==
    /\ Len(messages) = 5
    /\ messages[2].role = "user"
    /\ messages[4].role = "user"
    /\ messages[3].loading
    /\ messages[5].loading

(***************************************************************************)
(* C17: isTyping is raised only by a successful response that has replaced *)
(* its own placeholder in the active log: right after the continuation ran *)
(* the active log holds the resolved message and not the placeholder.      *)
(* The code does not keep it: the continuation raises isTyping whether or  *)
(* not its placeholder is in the log that is active when it runs.          *)
(***************************************************************************)
C17_TypingOnlyAfterReplacement ==
    (lastOp.op = "respondOk" /\ isTyping) =>
        /\ \E i \in 1..Len(messages) :
              /\ messages[i].id = Uuid(nextUuid - 1)
              /\ messages[i].role = "assistant"
              /\ messages[i].text = lastOp.answer
        /\ \A i \in 1..Len(messages) : messages[i].id # lastOp.req.loadingId

(***************************************************************************)
(* C18: every loading message of the active log or of a persisted          *)
(* transcript is the placeholder of a request of that session that is      *)
(* still outstanding.  The code does not keep it: the placeholder of a     *)
(* session left before the response came stays in its transcript.          *)
(***************************************************************************)
C18_LoadingMeansOutstanding ==
    \A s \in SessionIds :
        \A i \in 1..Len(LogOf(s)) :
            LogOf(s)[i].loading =>
                \E r \in pending :
                    /\ r.session = s
                    /\ r.loadingId = LogOf(s)[i].id

(***************************************************************************)
(* C19: whenever isSending or isTyping is set, and so after every accepted *)
(* send, the page comes to a state in which both are clear and send is     *)
(* accepted again, whatever sessions are started, loaded and deleted in    *)
(* between, provided every request is settled and the end of the reveal    *)
(* animation is reported whenever isTyping is set.                         *)
(***************************************************************************)
C19_EventuallyIdle == (isSending \/ isTyping) ~> Idle

\* A question was answered, its answer revealed, and the page is idle again.
C19_Witness ==
    /\ lastOp.op = "onLastTypingDone"
    /\ Idle
    /\ pending = {}
    /\ Len(messages) = 3
    /\ messages[3].text = "A"

(***************************************************************************)
(* C20: the response or the failure of a request whose session is not the  *)
(* active one any more changes neither the active log nor isSending nor    *)
(* isTyping.  The code does not keep it: the continuation sets isTyping    *)
(* and clears isSending in any case, and replaces a placeholder of the     *)
(* active log whose id equals its own.                                     *)
(***************************************************************************)
C20_LateResponseChangesNothing ==
    [][ \A req \in pending :
          (/\ req.session # sessionId
           /\ \/ respondFail(req)
              \/ \E data \in Datas : respondOk(req, data))
             => UNCHANGED <<messages, isSending, isTyping>> ]_vars

(***************************************************************************)
(* C21: in every state of the configuration panel, loading is set exactly  *)
(* while a loadConfig call is outstanding, saving exactly while a          *)
(* saveConfig call is outstanding, and runningCI exactly while a triggerCI *)
(* call is outstanding.  The code keeps it for saving and runningCI; for   *)
(* loading it does not: of two overlapping loadConfig calls the first to   *)
(* be settled clears the flag while the other is still outstanding.        *)
(***************************************************************************)
SavingReflectsCalls == saving <=> saves > 0
RunningCIReflectsCalls == runningCI <=> runs > 0

C21_BusyFlagsReflectCalls ==
    /\ loading <=> loads > 0
    /\ SavingReflectsCalls
    /\ RunningCIReflectsCalls

====
